---- MODULE Spec2Model ----
(***************************************************************************)
(* Model of audiocontrol_director_telnet/telnet_client.py: the telnet      *)
(* client of the AudioControl Director M6400/M6800.                        *)
(*                                                                         *)
(* Text is modelled character by character: a Python str is a sequence of  *)
(* one-character strings, so that split, comparison, parsing and the       *)
(* counting of newlines are computed as the code computes them.            *)
(***************************************************************************)
EXTENDS Integers, Sequences, FiniteSets, TLC

VARIABLES
    \* ---- Response Interpreter (pure function, SpecInterpret) ----
    iCommand,      \* the command argument of _interpret_result
    iResponse,     \* the response argument
    iExpect,       \* the expect_success_code argument
    iOut,          \* Pending, or the outcome of the call
    \* ---- Protocol Session (Spec, SpecOps) ----
    writer,        \* self._writer/_reader: "none" (None), "open", "closed"
    wire,          \* every text passed to self._writer.write, in order
    answered,      \* how many of the writes the device has answered
    devQueue,      \* what the device is still going to send
    inbuf,         \* received and not yet read (the reader's buffer)
    eof,           \* the device has closed the stream
    pc,            \* per task: "idle", "read" (suspended in the loop), "done"
    op,            \* per task: the operation it runs
    args,          \* per task: the arguments the operation was called with
    taskCommand,   \* per task: the command argument of its call
    expected,      \* per task: expected_response_line_count
    partial_result,\* per task: the local partial_result
    result,        \* per task: the local result
    line_count,    \* per task: the local line_count
    recording,     \* whether chunks is kept (it is history, not program state)
    chunks,        \* per task: what each read of the call returned, in order
    ret,           \* per task: the outcome of the operation
    disc,          \* the outcome of the last call of disconnect
    cut,           \* the tasks that were suspended in read when the stream
                   \* was closed by disconnect (history)
    \* ---- Status Report Parser (pure function, SpecStatus) ----
    report,        \* how the payload was put together (history)
    raw_result,    \* the text async_get_system_status_raw returned
    status,        \* Pending, or the outcome of async_get_system_status
    \* ---- Identifier Codecs (pure functions, SpecCodec) ----
    idClass,       \* the class whose create_from_status_id is called
    idToken,       \* the status_id argument
    idOut          \* Pending, or the outcome of the call

interpVars == <<iCommand, iResponse, iExpect, iOut>>

streamVars == <<writer, wire, answered, devQueue, inbuf, eof>>

taskVars == <<pc, op, args, taskCommand, expected, partial_result, result,
              line_count, recording, chunks, ret>>

closeVars == <<disc, cut>>

sessVars == <<streamVars, taskVars, closeVars>>

statusVars == <<report, raw_result, status>>

codecVars == <<idClass, idToken, idOut>>

vars == <<interpVars, sessVars, statusVars, codecVars>>

-----------------------------------------------------------------------------
(* Characters and string helpers                                           *)

CR == "\r"
LF == "\n"

Min(a, b) == IF a <= b THEN a ELSE b

\* The set of sequences over S of length lo..hi.
SeqsOf(S, lo, hi) == UNION { [1..n -> S] : n \in lo..hi }

\* sep occurs in s at position i.
MatchAt(s, sep, i) ==
    /\ i >= 1
    /\ i + Len(sep) - 1 <= Len(s)
    /\ SubSeq(s, i, i + Len(sep) - 1) = sep

\* Python's str.split(sep, maxsplit): the text is cut at the non-overlapping
\* occurrences of sep found from left to right, at most maxsplit of them
\* (maxsplit = -1: no limit).  start is where the part being cut begins.
RECURSIVE SplitFrom(_, _, _, _)
SplitFrom(s, sep, maxsplit, start) ==
    LET hits == { j \in start..Len(s) : MatchAt(s, sep, j) }
    IN  IF maxsplit = 0 \/ hits = {}
        THEN << SubSeq(s, start, Len(s)) >>
        ELSE LET j == CHOOSE h \in hits : \A g \in hits : h <= g
             IN  << SubSeq(s, start, j - 1) >>
                 \o SplitFrom(s, sep, maxsplit - 1, j + Len(sep))

Split(s, sep, maxsplit) == SplitFrom(s, sep, maxsplit, 1)

\* Outcomes of a call: a returned value or a raised exception.
Return(v) == [kind |-> "return", value |-> v]
Raise(e) == [kind |-> "raise", exc |-> e]

\* A call that has not been made, and one that has not finished.
NoCall == [kind |-> "idle"]
Pending == [kind |-> "pending"]

-----------------------------------------------------------------------------
(* TelnetClient._interpret_result                                          *)

\* Variant: the bad-command sentinel compared without its trailing "xx".
BadCommandReply_NoTrailer(command) == <<"x", "x">> \o command \o <<CR>>

\* f'xx{command}xx\r'
BadCommandReply(command) == <<"x", "x">> \o command \o <<"x", "x", CR>>

\* Variant: the success sentinel compared without its carriage return.
SuccessReply_NoCR(command) == <<"0", "1">> \o command

\* f'01{command}\r'
SuccessReply(command) == <<"0", "1">> \o command \o <<CR>>

\* response.split('\r', 1)
SplitResponse(response) == Split(response, <<CR>>, 1)

\* Variant: a remainder that begins with "01" and the command counts as
\* success.
interpret_result_PrefixSuccess(command, response, expect_success_code) ==
    LET response_parts == SplitResponse(response)
        command_echo == response_parts[1]
    IN  IF command_echo # command
        THEN Raise("Exception")
        ELSE IF Len(response_parts) < 2
        THEN Raise("IndexError")
        ELSE LET remainder == response_parts[2]
                 succeeded ==
                     MatchAt(remainder, <<"0", "1">> \o command, 1)
             IN  IF remainder = BadCommandReply(command)
                 THEN Raise("BadCommandError")
                 ELSE IF expect_success_code
                      THEN Return(<<succeeded, remainder>>)
                      ELSE Return(<<TRUE, remainder>>)

\* Variant: the sentinels are examined before the echo is compared.
interpret_result_SentinelFirst(command, response, expect_success_code) ==
    LET response_parts == SplitResponse(response)
        command_echo == response_parts[1]
    IN  IF Len(response_parts) >= 2 /\ response_parts[2] = BadCommandReply(command)
        THEN Raise("BadCommandError")
        ELSE IF command_echo # command
        THEN Raise("Exception")
        ELSE IF Len(response_parts) < 2
        THEN Raise("IndexError")
        ELSE LET remainder == response_parts[2]
                 succeeded == (remainder = SuccessReply(command))
             IN  IF expect_success_code
                 THEN Return(<<succeeded, remainder>>)
                 ELSE Return(<<TRUE, remainder>>)

\* Variant: the success flag is returned whatever expect_success_code is.
interpret_result_AlwaysStatus(command, response, expect_success_code) ==
    LET response_parts == SplitResponse(response)
        command_echo == response_parts[1]
    IN  IF command_echo # command
        THEN Raise("Exception")
        ELSE IF Len(response_parts) < 2
        THEN Raise("IndexError")
        ELSE LET remainder == response_parts[2]
                 succeeded == (remainder = SuccessReply(command))
             IN  IF remainder = BadCommandReply(command)
                 THEN Raise("BadCommandError")
                 ELSE Return(<<succeeded, remainder>>)

\* _interpret_result (its local result is remainder here): the echo check raises a plain Exception; indexing the
\* missing second part of a reply without carriage return raises IndexError.
interpret_result(command, response, expect_success_code) ==
    LET response_parts == SplitResponse(response)
        command_echo == response_parts[1]
    IN  IF command_echo # command
        THEN Raise("Exception")
        ELSE IF Len(response_parts) < 2
        THEN Raise("IndexError")
        ELSE LET remainder == response_parts[2]
                 succeeded == (remainder = SuccessReply(command))
             IN  IF remainder = BadCommandReply(command)
                 THEN Raise("BadCommandError")
                 ELSE IF expect_success_code
                      THEN Return(<<succeeded, remainder>>)
                      ELSE Return(<<TRUE, remainder>>)

InterpIdle ==
    /\ iCommand = <<>>
    /\ iResponse = <<>>
    /\ iExpect = FALSE
    /\ iOut = NoCall

-----------------------------------------------------------------------------
(* Identifier codecs: InputID and OutputID                                 *)

Digits == <<"0", "1", "2", "3", "4", "5", "6", "7", "8", "9">>

\* str(n) of a non-negative integer, and of any integer.
RECURSIVE NatToStr(_)
NatToStr(n) ==
    IF n < 10 THEN <<Digits[n + 1]>>
    ELSE NatToStr(n \div 10) \o <<Digits[(n % 10) + 1]>>

IntToStr(n) == IF n < 0 THEN <<"-">> \o NatToStr(-n) ELSE NatToStr(n)

\* InputID.create_analog, InputID.create_digital
InputID_create_analog(selection) == [analog |-> selection, digital |-> <<>>]
InputID_create_digital(selection) == [analog |-> -1, digital |-> <<selection>>]

\* OutputID.create_analog, OutputID.create_digital
OutputID_create_analog(selection) == [analog |-> selection, digital |-> <<>>]
OutputID_create_digital(selection) == [analog |-> -1, digital |-> <<selection>>]

\* InputID.__str__
InputID_str(id) ==
    IF id.analog # -1
    THEN <<"M", "X">> \o IntToStr(id.analog)
    ELSE <<"D", "X">> \o id.digital

\* OutputID.__str__
OutputID_str(id) ==
    IF id.analog # -1
    THEN <<"Z">> \o IntToStr(id.analog)
    ELSE <<"D", "X", "O">> \o id.digital

-----------------------------------------------------------------------------
(* InputID.create_from_status_id, OutputID.create_from_status_id           *)

\* The characters str.strip and int() treat as white space.
WhiteSpace == {" ", "\t", CR, LF}

RECURSIVE Strip(_)
Strip(s) ==
    IF s = <<>> THEN s
    ELSE IF Head(s) \in WhiteSpace THEN Strip(Tail(s))
    ELSE IF s[Len(s)] \in WhiteSpace THEN Strip(SubSeq(s, 1, Len(s) - 1))
    ELSE s

DigitValue(c) == CHOOSE d \in 0..9 : Digits[d + 1] = c

IsDigits(s) == s # <<>> /\ \A i \in 1..Len(s) : \E d \in 1..10 : Digits[d] = s[i]

RECURSIVE DigitsToNat(_)
DigitsToNat(s) ==
    IF s = <<>> THEN 0
    ELSE 10 * DigitsToNat(SubSeq(s, 1, Len(s) - 1)) + DigitValue(s[Len(s)])

\* int(text): white space around the number is ignored, a sign may precede
\* the decimal digits; anything else raises ValueError.
ParseInt(text) ==
    LET t == Strip(text)
        signed == t # <<>> /\ Head(t) \in {"+", "-"}
        body == IF signed THEN Tail(t) ELSE t
    IN  IF IsDigits(body)
        THEN Return(IF signed /\ Head(t) = "-"
                    THEN 0 - DigitsToNat(body) ELSE DigitsToNat(body))
        ELSE Raise("ValueError")

\* Variant: only 10 selects digital output b; what is neither 1..8 nor 10
\* selects digital output a.
OutputID_create_from_status_id_OnlyTenIsB(numeric_id) ==
    IF numeric_id >= 1 /\ numeric_id <= 8
    THEN [analog |-> numeric_id, digital |-> <<>>]
    ELSE [analog |-> -1, digital |-> IF numeric_id = 10 THEN <<"b">> ELSE <<"a">>]

\* OutputID.create_from_status_id, given the integer int(status_id).
OutputID_create_from_status_id(numeric_id) ==
    IF numeric_id >= 1 /\ numeric_id <= 8
    THEN [analog |-> numeric_id, digital |-> <<>>]
    ELSE [analog |-> -1, digital |-> IF numeric_id = 9 THEN <<"a">> ELSE <<"b">>]

\* InputID.create_from_status_id
InputID_create_from_status_id(status_id) ==
    LET status_parts == Split(status_id, <<" ", "&", " ">>, -1)
    IN  IF Len(status_parts) < 2 THEN Raise("IndexError")
        ELSE LET numeric_id == ParseInt(status_parts[2])
             IN  IF numeric_id.kind = "raise" THEN numeric_id
                 ELSE IF numeric_id.value >= 1 /\ numeric_id.value <= 8
                 THEN Return([analog |-> numeric_id.value, digital |-> <<>>])
                 ELSE Return([analog |-> -1,
                              digital |-> IF numeric_id.value = 9
                                          THEN <<"a">> ELSE <<"b">>])

\* OutputID.create_from_status_id called with a text: int(status_id) raises
\* ValueError on a text that is not a number.
OutputID_create_from_status_text(text) ==
    LET numeric_id == ParseInt(text)
    IN  IF numeric_id.kind = "raise" THEN numeric_id
        ELSE Return(OutputID_create_from_status_id(numeric_id.value))

-----------------------------------------------------------------------------
(* TelnetClient.async_get_system_status, from the raw result on            *)

\* 'AMPLIFIER NAME: '
AMPLIFIER_NAME == <<"A", "M", "P", "L", "I", "F", "I", "E", "R", " ", "N", "A", "M", "E", ":", " ">>

CRLF == <<CR, LF>>
COMMA == <<",", " ">>
ON == <<"o", "n">>

\* result_lines[11:21]
FirstOutputLine == 11
EndOutputLine == 21

\* seq[a:b] of Python for 0 <= a <= b.
Slice(seq, a, b) == SubSeq(seq, a + 1, Min(b, Len(seq)))

\* outputs[key] = value on a dict kept as the sequence of its items in
\* insertion order: an existing key keeps its place and gets the new value.
DictSet(d, key, value) ==
    IF \E i \in 1..Len(d) : d[i].key = key
    THEN [i \in 1..Len(d) |->
             IF d[i].key = key THEN [key |-> key, value |-> value] ELSE d[i]]
    ELSE Append(d, [key |-> key, value |-> value])

\* The body of the loop over output_lines for one line: the OutputStatus and
\* its key, or the exception raised.
ParseOutputLine(result_line) ==
    LET fields == Split(result_line, COMMA, -1)
    IN  IF Len(fields) < 2 THEN Raise("IndexError")
        ELSE LET raw_output_id == ParseInt(fields[2])
        IN  IF raw_output_id.kind = "raise" THEN raw_output_id
        ELSE IF Len(fields) < 4 THEN Raise("IndexError")
        ELSE LET output_id == OutputID_create_from_status_id(raw_output_id.value)
                 input_id == InputID_create_from_status_id(fields[4])
        IN  IF input_id.kind = "raise" THEN input_id
        ELSE IF Len(fields) < 5 THEN Raise("IndexError")
        ELSE LET volume == ParseInt(fields[5])
        IN  IF volume.kind = "raise" THEN volume
        ELSE IF Len(fields) < 11 THEN Raise("IndexError")
        ELSE Return([output_id |-> output_id,
                     name |-> fields[1],
                     input_id |-> input_id.value,
                     is_on |-> fields[3] = ON,
                     volume |-> volume.value,
                     is_signal_sense_on |-> fields[11] = ON])

\* The loop over output_lines, outputs being the dict built so far.
RECURSIVE ParseOutputLines(_, _)
ParseOutputLines(output_lines, outputs) ==
    IF output_lines = <<>> THEN Return(outputs)
    ELSE LET output == ParseOutputLine(Head(output_lines))
         IN  IF output.kind = "raise" THEN output
             ELSE ParseOutputLines(
                      Tail(output_lines),
                      DictSet(outputs, OutputID_str(output.value.output_id),
                              output.value))

\* system_name_line.split('AMPLIFIER NAME: ')[1]
SystemName(system_name_line) ==
    LET parts == Split(system_name_line, AMPLIFIER_NAME, -1)
    IN  IF Len(parts) < 2 THEN Raise("IndexError") ELSE Return(parts[2])

\* async_get_system_status after the raw result was received.
ParseStatus(raw) ==
    LET result_lines == Split(raw, CRLF, -1)
        system_name == SystemName(result_lines[1])
    IN  IF system_name.kind = "raise" THEN system_name
        ELSE LET outputs == ParseOutputLines(
                     Slice(result_lines, FirstOutputLine, EndOutputLine), <<>>)
             IN  IF outputs.kind = "raise" THEN outputs
                 ELSE Return([name |-> system_name.value,
                              outputs |-> outputs.value])

StatusIdle ==
    /\ report = <<>>
    /\ raw_result = <<>>
    /\ status = NoCall

CodecIdle ==
    /\ idClass = "none"
    /\ idToken = <<>>
    /\ idOut = NoCall

-----------------------------------------------------------------------------
(* Protocol session: TelnetClient                                          *)

\* The tasks of the caller that use the client concurrently.
Tasks == {1, 2}

\* The size argument of self._reader.read(1024).
ReadSize == 1024

\* len(partial_result.split('\n')) - 1
NewLines(partial) == Len(Split(partial, <<LF>>, -1)) - 1

\* Variant: the loop also ends when the count has passed the expected one.
LoopExit_AtLeast(count, expected_response_line_count) ==
    count >= expected_response_line_count

\* if line_count == expected_response_line_count: break
LoopExit(count, expected_response_line_count) ==
    count = expected_response_line_count

\* Variant: _async_send_command returns the text without its last character.
Complete_DropsLast(o, cmd, text) ==
    IF o = "send" THEN Return(SubSeq(text, 1, Len(text) - 1))
    ELSE LET r == interpret_result(cmd, text, o # "status_raw")
         IN  IF r.kind = "raise" THEN r ELSE Return(r.value[2])

\* What the operation does with the text _async_send_command returned.
Complete(o, cmd, text) ==
    IF o = "send" THEN Return(text)
    ELSE LET r == interpret_result(cmd, text, o # "status_raw")
         IN  IF r.kind = "raise" THEN r ELSE Return(r.value[2])

SessIdle ==
    /\ writer = "none"
    /\ wire = <<>>
    /\ answered = 0
    /\ devQueue = <<>>
    /\ inbuf = <<>>
    /\ eof = FALSE
    /\ pc = [t \in Tasks |-> "idle"]
    /\ op = [t \in Tasks |-> "none"]
    /\ args = [t \in Tasks |-> <<>>]
    /\ taskCommand = [t \in Tasks |-> <<>>]
    /\ expected = [t \in Tasks |-> 0]
    /\ partial_result = [t \in Tasks |-> <<>>]
    /\ result = [t \in Tasks |-> <<>>]
    /\ line_count = [t \in Tasks |-> 0]
    /\ recording = FALSE
    /\ chunks = [t \in Tasks |-> <<>>]
    /\ ret = [t \in Tasks |-> NoCall]
    /\ disc = NoCall
    /\ cut = {}

\* async_connect: the connection is opened; reader and writer are set.
Connect ==
    /\ writer = "none"
    /\ writer' = "open"
    /\ UNCHANGED <<wire, answered, devQueue, inbuf, eof, taskVars, closeVars, interpVars,
                   statusVars, codecVars>>

\* Variant: the command line is written a second time before the loop.
Begin_WritesTwice(t, o, a, cmd, k) ==
    /\ op' = [op EXCEPT ![t] = o]
    /\ args' = [args EXCEPT ![t] = a]
    /\ taskCommand' = [taskCommand EXCEPT ![t] = cmd]
    /\ expected' = [expected EXCEPT ![t] = k]
    /\ IF writer = "none"
       THEN /\ pc' = [pc EXCEPT ![t] = "done"]
            /\ ret' = [ret EXCEPT ![t] = Raise("AttributeError")]
            /\ UNCHANGED wire
            /\ UNCHANGED <<partial_result, result, line_count, chunks>>
       ELSE /\ wire' = wire \o << cmd \o <<CR>>, cmd \o <<CR>> >>
            /\ pc' = [pc EXCEPT ![t] = "read"]
            /\ ret' = [ret EXCEPT ![t] = Pending]
            /\ partial_result' = [partial_result EXCEPT ![t] = <<>>]
            /\ result' = [result EXCEPT ![t] = <<>>]
            /\ line_count' = [line_count EXCEPT ![t] = 0]
            /\ chunks' = [chunks EXCEPT ![t] = <<>>]
    /\ UNCHANGED <<writer, answered, devQueue, inbuf, eof, recording,
                   closeVars, interpVars, statusVars, codecVars>>

\* The start of an operation o of a free task t, up to its first suspension:
\* _async_send_command writes command + '\r', drains, and enters the loop.
\* On a client that was never connected self._writer is None.  On a writer
\* that disconnect has closed the text does not reach the device; drain
\* either raises ConnectionResetError or returns, and the loop is entered.
\* The locals of the call are set once the drain has returned.
Begin(t, o, a, cmd, k) ==
    /\ op' = [op EXCEPT ![t] = o]
    /\ args' = [args EXCEPT ![t] = a]
    /\ taskCommand' = [taskCommand EXCEPT ![t] = cmd]
    /\ expected' = [expected EXCEPT ![t] = k]
    /\ IF writer = "none"
       THEN /\ pc' = [pc EXCEPT ![t] = "done"]
            /\ ret' = [ret EXCEPT ![t] = Raise("AttributeError")]
            /\ UNCHANGED wire
            /\ UNCHANGED <<partial_result, result, line_count, chunks>>
       ELSE /\ wire' = Append(wire, cmd \o <<CR>>)
            /\ \/ /\ pc' = [pc EXCEPT ![t] = "read"]
                  /\ ret' = [ret EXCEPT ![t] = Pending]
                  /\ partial_result' = [partial_result EXCEPT ![t] = <<>>]
                  /\ result' = [result EXCEPT ![t] = <<>>]
                  /\ line_count' = [line_count EXCEPT ![t] = 0]
                  /\ chunks' = [chunks EXCEPT ![t] = <<>>]
               \/ /\ writer = "closed"
                  /\ pc' = [pc EXCEPT ![t] = "done"]
                  /\ ret' = [ret EXCEPT ![t] = Raise("ConnectionResetError")]
                  /\ UNCHANGED <<partial_result, result, line_count, chunks>>
    /\ UNCHANGED <<writer, answered, devQueue, inbuf, eof, recording,
                   closeVars, interpVars, statusVars, codecVars>>

\* Variant: the loop does not end on an empty read.
Read_IgnoresEndOfData(t) ==
    /\ pc[t] = "read"
    /\ inbuf # <<>> \/ eof
    /\ LET n == Min(ReadSize, Len(inbuf))
           partial == SubSeq(inbuf, 1, n)
           text == result[t] \o partial
           count == line_count[t] + NewLines(partial)
           leave == LoopExit(count, expected[t])
       IN  /\ inbuf' = SubSeq(inbuf, n + 1, Len(inbuf))
           /\ partial_result' = [partial_result EXCEPT ![t] = partial]
           /\ chunks' = IF recording
                        THEN [chunks EXCEPT ![t] = Append(@, partial)]
                        ELSE chunks
           /\ result' = [result EXCEPT ![t] = text]
           /\ line_count' = [line_count EXCEPT ![t] = count]
           /\ pc' = [pc EXCEPT ![t] = IF leave THEN "done" ELSE "read"]
           /\ ret' = [ret EXCEPT ![t] =
                         IF leave THEN Complete(op[t], taskCommand[t], text) ELSE @]
    /\ UNCHANGED <<writer, wire, answered, devQueue, eof, op, args,
                   taskCommand, expected, recording, closeVars,
                   interpVars, statusVars, codecVars>>

\* One round of the loop of _async_send_command in task t: the read returns
\* what is buffered (at most ReadSize characters; nothing at end of stream);
\* the loop then either ends, and the operation completes, or suspends in
\* the next read.
Read(t) ==
    /\ pc[t] = "read"
    /\ inbuf # <<>> \/ eof
    /\ LET n == Min(ReadSize, Len(inbuf))
           partial == SubSeq(inbuf, 1, n)
           text == result[t] \o partial
           count == line_count[t] + NewLines(partial)
           leave == partial = <<>> \/ LoopExit(count, expected[t])
       IN  /\ inbuf' = SubSeq(inbuf, n + 1, Len(inbuf))
           /\ partial_result' = [partial_result EXCEPT ![t] = partial]
           /\ chunks' = IF recording
                        THEN [chunks EXCEPT ![t] = Append(@, partial)]
                        ELSE chunks
           /\ result' = [result EXCEPT ![t] = text]
           /\ line_count' = [line_count EXCEPT ![t] =
                                IF partial = <<>> THEN @ ELSE count]
           /\ pc' = [pc EXCEPT ![t] = IF leave THEN "done" ELSE "read"]
           /\ ret' = [ret EXCEPT ![t] =
                         IF leave THEN Complete(op[t], taskCommand[t], text) ELSE @]
    /\ UNCHANGED <<writer, wire, answered, devQueue, eof, op, args,
                   taskCommand, expected, recording, closeVars,
                   interpVars, statusVars, codecVars>>

\* Task t calls read while another task is already suspended in read on the
\* same reader with nothing buffered: the stream reader refuses the second
\* waiter with a RuntimeError.
ReadConflict(t) ==
    /\ pc[t] = "read"
    /\ inbuf = <<>> /\ ~eof
    /\ \E u \in Tasks \ {t} : pc[u] = "read"
    /\ pc' = [pc EXCEPT ![t] = "done"]
    /\ ret' = [ret EXCEPT ![t] = Raise("RuntimeError")]
    /\ UNCHANGED <<streamVars, op, args, taskCommand, expected,
                   partial_result, result, line_count, recording, chunks,
                   closeVars, interpVars, statusVars, codecVars>>

\* The transport delivers the next n characters the device sends.  The
\* device speaks only once a command has been written to it.
DeviceSend(n) ==
    /\ writer = "open"
    /\ wire # <<>>
    /\ ~eof
    /\ n \in 1..Len(devQueue)
    /\ inbuf' = inbuf \o SubSeq(devQueue, 1, n)
    /\ devQueue' = SubSeq(devQueue, n + 1, Len(devQueue))
    /\ UNCHANGED <<writer, wire, answered, eof, taskVars, closeVars, interpVars,
                   statusVars, codecVars>>

\* The device closes the stream; what it had not sent is never sent.
DeviceClose ==
    /\ writer = "open"
    /\ ~eof
    /\ eof' = TRUE
    /\ devQueue' = <<>>
    /\ UNCHANGED <<writer, wire, answered, inbuf, taskVars, closeVars, interpVars,
                   statusVars, codecVars>>

\* disconnect: self._writer.close().  On a client that was never connected
\* self._writer is None; closing a writer that is closed already changes
\* nothing.  The call does not wait for anything.
Disconnect ==
    /\ IF writer = "none"
       THEN /\ disc' = Raise("AttributeError")
            /\ UNCHANGED <<writer, cut>>
       ELSE /\ disc' = Return("None")
            /\ writer' = "closed"
            /\ cut' = IF writer = "open"
                      THEN { t \in Tasks : pc[t] = "read" }
                      ELSE cut
    /\ UNCHANGED <<wire, answered, devQueue, inbuf, eof, taskVars, interpVars,
                   statusVars, codecVars>>

\* The closed transport reports the lost connection: the reader is at end
\* of stream once what it has buffered is read.
ConnectionLost ==
    /\ writer = "closed"
    /\ ~eof
    /\ eof' = TRUE
    /\ devQueue' = <<>>
    /\ UNCHANGED <<writer, wire, answered, inbuf, taskVars, closeVars,
                   interpVars, statusVars, codecVars>>

-----------------------------------------------------------------------------
(* Spec: tasks call _async_send_command on one client, against a device    *)
(* that sends an arbitrary bounded text                                    *)

MaxBytes == 4
MaxExpected == 2

WireChars == {"a", LF}

SendCommands == {<<"a">>}

\* _async_send_command(cmd, k) called in task t.
SendCommand(t, cmd, k) ==
    /\ pc[t] = "idle"
    /\ Begin(t, "send", <<cmd, k>>, cmd, k)

Init ==
    /\ InterpIdle
    /\ StatusIdle
    /\ CodecIdle
    /\ writer = "none"
    /\ wire = <<>>
    /\ answered = 0
    /\ devQueue \in SeqsOf(WireChars, 0, MaxBytes)
    /\ inbuf = <<>>
    /\ eof = FALSE
    /\ pc = [t \in Tasks |-> "idle"]
    /\ op = [t \in Tasks |-> "none"]
    /\ args = [t \in Tasks |-> <<>>]
    /\ taskCommand = [t \in Tasks |-> <<>>]
    /\ expected = [t \in Tasks |-> 0]
    /\ partial_result = [t \in Tasks |-> <<>>]
    /\ result = [t \in Tasks |-> <<>>]
    /\ line_count = [t \in Tasks |-> 0]
    /\ recording = TRUE
    /\ chunks = [t \in Tasks |-> <<>>]
    /\ ret = [t \in Tasks |-> NoCall]
    /\ disc = NoCall
    /\ cut = {}

Next ==
    \/ Connect
    \/ \E t \in Tasks, cmd \in SendCommands, k \in 0..MaxExpected :
          SendCommand(t, cmd, k)
    \/ \E t \in Tasks : Read(t)
    \/ \E t \in Tasks : ReadConflict(t)
    \/ \E n \in 1..Len(devQueue) : DeviceSend(n)
    \/ DeviceClose

Spec == Init /\ [][Next]_vars

-----------------------------------------------------------------------------
(* SpecOps: the command operations of one caller, against a device that    *)
(* answers each command it receives                                        *)

\* 'SYSTEMstat?'
STATUS_COMMAND == <<"S", "Y", "S", "T", "E", "M", "s", "t", "a", "t", "?">>

\* The line count async_get_system_status_raw passes.
StatusLineCount == 21

\* The line count the command operations with a sentinel reply pass.
SentinelLineCount == 1

\* async_map_input_to_output: f'{output_id}source{input_id}'
async_map_input_to_output(t, input_id, output_id) ==
    /\ pc[t] = "idle"
    /\ Begin(t, "route", <<input_id, output_id>>,
             OutputID_str(output_id) \o <<"s", "o", "u", "r", "c", "e">>
                 \o InputID_str(input_id),
             SentinelLineCount)

\* async_set_output_power_state: f'{output_id}{state_string}'
async_set_output_power_state(t, output_id, state) ==
    /\ pc[t] = "idle"
    /\ Begin(t, "power", <<output_id, state>>,
             OutputID_str(output_id)
                 \o (IF state THEN <<"o", "n">> ELSE <<"o", "f", "f">>),
             SentinelLineCount)

\* async_set_output_volume: f'{output_id}setvol{str(volume)}'
async_set_output_volume(t, output_id, volume) ==
    /\ pc[t] = "idle"
    /\ Begin(t, "volume", <<output_id, volume>>,
             OutputID_str(output_id) \o <<"s", "e", "t", "v", "o", "l">>
                 \o IntToStr(volume),
             SentinelLineCount)

\* async_get_system_status_raw
async_get_system_status_raw(t) ==
    /\ pc[t] = "idle"
    /\ Begin(t, "status_raw", <<>>, STATUS_COMMAND, StatusLineCount)

\* The identifiers and volumes the caller uses.
OpsInputs == {InputID_create_analog(2), InputID_create_digital("b")}
OpsOutputs == {OutputID_create_analog(3), OutputID_create_digital("a")}
OpsVolumes == {100}

\* The task that issues the operations.
OpsTasks == {1}

\* n empty lines, each ended by CRLF.
RECURSIVE ReportLines(_)
ReportLines(n) ==
    IF n = 0 THEN <<>> ELSE <<CR, LF>> \o ReportLines(n - 1)

\* What the device may answer to a written command line: the echo followed
\* by the bad-command sentinel, by the success sentinel, or by the success
\* sentinel and a line feed; the status query is answered by the echo and
\* the bad-command sentinel or a report of StatusLineCount lines; and any
\* command may be answered by a line that is not its echo.
DeviceReplies(written) ==
    LET c == SubSeq(written, 1, Len(written) - 1)
    IN  { c \o <<CR, "x", "x">> \o c \o <<"x", "x", CR>>,
          <<"?", CR, LF>> }
        \cup
        IF c = STATUS_COMMAND
        THEN { c \o <<CR>> \o ReportLines(StatusLineCount) }
        ELSE { c \o <<CR, "0", "1">> \o c \o <<CR>>,
               c \o <<CR, "0", "1">> \o c \o <<CR, LF>> }

\* The device answers the oldest command it has not answered yet.
DeviceReply ==
    /\ writer = "open"
    /\ ~eof
    /\ answered < Len(wire)
    /\ answered' = answered + 1
    /\ \E r \in DeviceReplies(wire[answered + 1]) : devQueue' = devQueue \o r
    /\ UNCHANGED <<writer, wire, inbuf, eof, taskVars, closeVars, interpVars,
                   statusVars, codecVars>>

InitOps == InterpIdle /\ StatusIdle /\ CodecIdle /\ SessIdle

NextOps ==
    \/ Connect
    \/ \E t \in OpsTasks, i \in OpsInputs, o \in OpsOutputs :
          async_map_input_to_output(t, i, o)
    \/ \E t \in OpsTasks, o \in OpsOutputs, b \in BOOLEAN :
          async_set_output_power_state(t, o, b)
    \/ \E t \in OpsTasks, o \in OpsOutputs, v \in OpsVolumes :
          async_set_output_volume(t, o, v)
    \/ \E t \in OpsTasks : async_get_system_status_raw(t)
    \/ \E t \in OpsTasks : Read(t)
    \/ DeviceReply
    \/ \E n \in 1..Len(devQueue) : DeviceSend(n)
    \/ DeviceClose

SpecOps == InitOps /\ [][NextOps]_vars

-----------------------------------------------------------------------------
(* SpecDisconnect: the caller also disconnects, at any moment              *)

\* The longest text the device sends in SpecDisconnect.
MaxCloseBytes == 2

InitDisconnect ==
    /\ InterpIdle
    /\ StatusIdle
    /\ CodecIdle
    /\ writer = "none"
    /\ wire = <<>>
    /\ answered = 0
    /\ devQueue \in SeqsOf(WireChars, 0, MaxCloseBytes)
    /\ inbuf = <<>>
    /\ eof = FALSE
    /\ pc = [t \in Tasks |-> "idle"]
    /\ op = [t \in Tasks |-> "none"]
    /\ args = [t \in Tasks |-> <<>>]
    /\ taskCommand = [t \in Tasks |-> <<>>]
    /\ expected = [t \in Tasks |-> 0]
    /\ partial_result = [t \in Tasks |-> <<>>]
    /\ result = [t \in Tasks |-> <<>>]
    /\ line_count = [t \in Tasks |-> 0]
    /\ recording = FALSE
    /\ chunks = [t \in Tasks |-> <<>>]
    /\ ret = [t \in Tasks |-> NoCall]
    /\ disc = NoCall
    /\ cut = {}

NextDisconnect ==
    \/ Connect
    \/ \E t \in Tasks, cmd \in SendCommands, k \in 0..MaxExpected :
          SendCommand(t, cmd, k)
    \/ \E t \in Tasks : Read(t)
    \/ \E t \in Tasks : ReadConflict(t)
    \/ \E n \in 1..Len(devQueue) : DeviceSend(n)
    \/ DeviceClose
    \/ Disconnect
    \/ ConnectionLost

SpecDisconnect == InitDisconnect /\ [][NextDisconnect]_vars

\* The event loop runs what is ready: the callback that reports the lost
\* connection, and every task whose read can return.
FairDisconnect ==
    /\ SpecDisconnect
    /\ WF_vars(ConnectionLost)
    /\ \A t \in Tasks : WF_vars(Read(t))

-----------------------------------------------------------------------------
(* SpecInterpret: _interpret_result applied to bounded inputs              *)

MaxCmdLen == 2

CmdChars == {"Z", "x"}

\* Echo candidates: every text of at most MaxCmdLen command characters.
Heads == SeqsOf(CmdChars, 0, MaxCmdLen)

Commands == Heads \ {<<>>}

\* Candidate remainders: the two sentinels of every command, their
\* truncations and over-long variants, and bare payloads.
Remainders ==
    { pre \o mid \o post :
        pre \in {<<>>, <<"x", "x">>, <<"0", "1">>, <<"x">>},
        mid \in Heads,
        post \in {<<>>, <<CR>>, <<"x", "x", CR>>, <<"x", "x">>,
                  <<CR, LF>>, <<"x", "x", CR, CR>>} }

\* Raw replies: an echo candidate alone (no carriage return received), or an
\* echo candidate, a carriage return and a remainder.
RawReplies ==
    Heads \cup { h \o <<CR>> \o r : h \in Heads, r \in Remainders }

InitInterpret ==
    /\ SessIdle
    /\ StatusIdle
    /\ CodecIdle
    /\ iCommand \in Commands
    /\ iResponse \in RawReplies
    /\ iExpect \in BOOLEAN
    /\ iOut = Pending

Interpret ==
    /\ iOut = Pending
    /\ iOut' = interpret_result(iCommand, iResponse, iExpect)
    /\ UNCHANGED <<iCommand, iResponse, iExpect>>

NextInterpret == Interpret /\ UNCHANGED <<sessVars, statusVars, codecVars>>

SpecInterpret == InitInterpret /\ [][NextInterpret]_vars

-----------------------------------------------------------------------------
(* SpecStatus: async_get_system_status applied to bounded raw results      *)

\* How many lines a report may carry beyond line 20.
MaxExtraLines == 1

NumOutputs == 10

\* str.join
RECURSIVE Join(_, _)
Join(parts, sep) ==
    IF parts = <<>> THEN <<>>
    ELSE IF Len(parts) = 1 THEN parts[1]
    ELSE parts[1] \o sep \o Join(Tail(parts), sep)

\* Device names: a plain one, the empty one, one that holds the prefix.
DeviceNames ==
    { <<"D", "i", "r">>, <<>>, <<"D">> \o AMPLIFIER_NAME \o <<"2">> }

\* The numeric ids of the ten record lines: 1..10 in order, then variants
\* with a repeated id, an id above 10, a non-numeric id, and reversed order.
InOrder == [i \in 1..NumOutputs |-> IntToStr(i)]

IdVectors ==
    { InOrder,
      [InOrder EXCEPT ![2] = <<"1">>],
      [InOrder EXCEPT ![9] = <<"1", "2">>],
      [InOrder EXCEPT ![5] = <<"x">>],
      [i \in 1..NumOutputs |-> IntToStr(NumOutputs + 1 - i)] }

InputTokens == { <<"M", "X", "2", " ", "&", " ", "2">>, <<"M", "X", "2">> }

VolumeTexts == { <<"5", "0">>, <<"l", "o", "w">> }

\* Record line i of a report.
RecordLine(r, i) ==
    Join(<< <<"O">> \o IntToStr(i), r.ids[i], ON, r.input, r.volume,
            <<"0">>, <<"0">>, <<"E">>, <<"0">>, <<"T">>, <<"o", "f", "f">> >>,
         COMMA)

\* The lines of a full report: the name line, ten lines this client does not
\* read, the ten record lines, and the lines after them.
ReportText(r) ==
    LET all == << AMPLIFIER_NAME \o r.name >>
               \o [i \in 1..(FirstOutputLine - 1) |-> <<"-">>]
               \o [i \in 1..NumOutputs |-> RecordLine(r, i)]
               \o [i \in 1..MaxExtraLines |-> <<"+">>]
    IN  Join(SubSeq(all, 1, r.lines), CRLF)
        \o (IF r.trailing THEN CRLF ELSE <<>>)

Reports ==
    [ name : DeviceNames,
      ids : IdVectors,
      input : InputTokens,
      volume : VolumeTexts,
      lines : 1..(EndOutputLine + MaxExtraLines),
      trailing : BOOLEAN ]

InitStatus ==
    /\ InterpIdle
    /\ CodecIdle
    /\ SessIdle
    /\ report \in Reports
    /\ raw_result = ReportText(report)
    /\ status = Pending

\* async_get_system_status parses the raw result.
GetSystemStatus ==
    /\ status = Pending
    /\ status' = ParseStatus(raw_result)
    /\ UNCHANGED <<report, raw_result, interpVars, sessVars, codecVars>>

NextStatus == GetSystemStatus

SpecStatus == InitStatus /\ [][NextStatus]_vars

-----------------------------------------------------------------------------
(* SpecSeq: one caller issues operations one after another                 *)

\* How many operations the caller issues on a connected client.
MaxCalls == 2

\* The awaiting caller receives the outcome; it is free to call again.
Returned(t) ==
    /\ pc[t] = "done"
    /\ pc' = [pc EXCEPT ![t] = "idle"]
    /\ UNCHANGED <<streamVars, op, args, taskCommand, expected,
                   partial_result, result, line_count, recording, chunks, ret,
                   closeVars, interpVars, statusVars, codecVars>>

SeqOutputs == {OutputID_create_analog(3)}

\* What the device answers in SpecSeq: the echo, then the payload.  The
\* payload of the status query is a report of StatusLineCount lines or
\* more; the payload of any other command is the success sentinel, ended
\* by a line feed.
SeqReplies(written) ==
    LET c == SubSeq(written, 1, Len(written) - 1)
    IN  IF c = STATUS_COMMAND
        THEN { c \o <<CR>> \o ReportLines(StatusLineCount + extra) :
                  extra \in 0..MaxExtraLines }
        ELSE { c \o <<CR, "0", "1">> \o c \o <<CR, LF>> }

\* The device answers the oldest command it has not answered yet.
DeviceAnswer ==
    /\ writer = "open"
    /\ ~eof
    /\ answered < Len(wire)
    /\ answered' = answered + 1
    /\ \E r \in SeqReplies(wire[answered + 1]) : devQueue' = devQueue \o r
    /\ UNCHANGED <<writer, wire, inbuf, eof, taskVars, closeVars, interpVars,
                   statusVars, codecVars>>

\* How much the transport delivers at a time in SpecSeq: all the device
\* has sent, the echo line of the status query, or that echo line and the
\* first StatusLineCount lines of the report.
SeqChunkSizes ==
    { Len(devQueue),
      Len(STATUS_COMMAND) + 1,
      Len(STATUS_COMMAND) + 1 + Len(ReportLines(StatusLineCount)) }

InitSeq == InterpIdle /\ StatusIdle /\ CodecIdle /\ SessIdle

NextSeq ==
    \/ Connect
    \/ \E t \in OpsTasks, o \in SeqOutputs, b \in BOOLEAN :
          Len(wire) < MaxCalls /\ async_set_output_power_state(t, o, b)
    \/ \E t \in OpsTasks :
          Len(wire) < MaxCalls /\ async_get_system_status_raw(t)
    \/ \E t \in OpsTasks : Read(t)
    \/ \E t \in OpsTasks : Returned(t)
    \/ DeviceAnswer
    \/ \E n \in SeqChunkSizes : DeviceSend(n)
    \/ DeviceClose

SpecSeq == InitSeq /\ [][NextSeq]_vars

-----------------------------------------------------------------------------
(* SpecCodec: create_from_status_id of both classes applied to bounded     *)
(* status tokens                                                           *)

\* The largest magnitude of a number written in a status token.
MaxStatusId == 12

StatusNumbers == (0 - MaxStatusId)..MaxStatusId

\* ' & '
AMPERSAND == <<" ", "&", " ">>

\* Texts in the place of a number: every number of StatusNumbers, and texts
\* that are not plain numbers.
NumberTexts ==
    { IntToStr(n) : n \in StatusNumbers }
    \cup { <<>>, <<"x">>, <<"3", "x">>, <<" ", "3">>, <<"+", "3">> }

\* What precedes the separator in an input token.
TokenNames == { <<"F", "o", "o">>, <<>> }

OutputStatusTokens == NumberTexts

\* Input tokens: without separator, with one, and with two.
InputStatusTokens ==
    NumberTexts
    \cup TokenNames
    \cup { p \o AMPERSAND \o n : p \in TokenNames, n \in NumberTexts }
    \cup { p \o AMPERSAND \o n \o AMPERSAND \o m :
             p \in TokenNames,
             n \in { <<"3">>, <<"9">>, <<"x">> },
             m \in { <<"4">>, <<"x">> } }

InitCodec ==
    /\ InterpIdle
    /\ StatusIdle
    /\ SessIdle
    /\ \/ idClass = "OutputID" /\ idToken \in OutputStatusTokens
       \/ idClass = "InputID" /\ idToken \in InputStatusTokens
    /\ idOut = Pending

\* OutputID.create_from_status_id(idToken)
CreateOutputID ==
    /\ idClass = "OutputID"
    /\ idOut = Pending
    /\ idOut' = OutputID_create_from_status_text(idToken)
    /\ UNCHANGED <<idClass, idToken, interpVars, sessVars, statusVars>>

\* InputID.create_from_status_id(idToken)
CreateInputID ==
    /\ idClass = "InputID"
    /\ idOut = Pending
    /\ idOut' = InputID_create_from_status_id(idToken)
    /\ UNCHANGED <<idClass, idToken, interpVars, sessVars, statusVars>>

NextCodec == CreateOutputID \/ CreateInputID

SpecCodec == InitCodec /\ [][NextCodec]_vars

-----------------------------------------------------------------------------
(* Properties of the Protocol Session (Spec)                               *)

\* The number of newline characters of s.
CountLF(s) == Cardinality({ i \in 1..Len(s) : s[i] = LF })

\* The concatenation of a sequence of texts.
RECURSIVE Concat(_)
Concat(ss) == IF ss = <<>> THEN <<>> ELSE Head(ss) \o Concat(Tail(ss))

\* After the i-th read of task t's call, the read returned nothing or the
\* newline characters received so far number exactly the expected count.
StopAt(t, i) ==
    \/ chunks[t][i] = <<>>
    \/ CountLF(Concat(SubSeq(chunks[t], 1, i))) = expected[t]

\* C1: _async_send_command returns at the first read after which the
\* newlines received since the write number exactly the expected line count,
\* or which returned nothing: no earlier read of the call satisfied either
\* condition (so no read follows one that did), a call still in its loop has
\* not satisfied one, and a call that returned did so on its last read.
C1_ReturnsAtFirstCompletingRead ==
    \A t \in Tasks :
        /\ \A i \in 1..(Len(chunks[t]) - 1) : ~StopAt(t, i)
        /\ (pc[t] = "read" /\ chunks[t] # <<>>) => ~StopAt(t, Len(chunks[t]))
        /\ (pc[t] = "done" /\ ret[t].kind = "return")
              => chunks[t] # <<>> /\ StopAt(t, Len(chunks[t]))

C1_Witness ==
    \E t \in Tasks :
        /\ pc[t] = "done"
        /\ ret[t].kind = "return"
        /\ expected[t] = 2
        /\ Len(chunks[t]) = 3
        /\ chunks[t][3] # <<>>
        /\ CountLF(result[t]) = 2

\* C2: once the device has sent at least the expected number of lines and
\* everything it sent has been read, the stream staying open and the device
\* silent, the call has returned: it is not left suspended in read.
C2_ReturnsOnceReplyComplete ==
    \A t \in Tasks :
        ( /\ CountLF(result[t]) >= expected[t]
          /\ expected[t] >= 1
          /\ devQueue = <<>>
          /\ inbuf = <<>>
          /\ ~eof )
        => pc[t] # "read"

\* C3: at most one command is outstanding on the stream: no command is
\* written while another task's command is still waiting for its reply.
C3_OneOutstandingCommand ==
    Cardinality({ t \in Tasks : pc[t] = "read" }) <= 1

\* 'Z3sourceMX2', and the reply 'Z3sourceMX2\r01Z3sourceMX2\r'.
RouteZ3MX2 == <<"Z", "3", "s", "o", "u", "r", "c", "e", "M", "X", "2">>
RouteZ3MX2Reply == RouteZ3MX2 \o <<CR, "0", "1">> \o RouteZ3MX2 \o <<CR>>

\* C4: the route operation for output zone 3 and analog input 2 writes
\* exactly "Z3sourceMX2\r", and once the device has replied with exactly
\* "Z3sourceMX2\r01Z3sourceMX2\r", all of which has been read, the stream
\* staying open, the operation has completed successfully; nothing further
\* is written and the connection state is unchanged.
C4_RouteEndToEnd ==
    \A t \in Tasks :
        ( /\ op[t] = "route"
          /\ args[t] = <<InputID_create_analog(2), OutputID_create_analog(3)>>
          /\ ret[t] # Raise("AttributeError") )
        => /\ wire = << RouteZ3MX2 \o <<CR>> >>
           /\ writer = "open"
           /\ ( /\ answered = 1
                /\ result[t] = RouteZ3MX2Reply
                /\ devQueue = <<>>
                /\ inbuf = <<>>
                /\ ~eof )
              => (pc[t] = "done" /\ ret[t].kind = "return")

\* C15: the text _async_send_command returns is the concatenation, in
\* order, of the chunks its reads returned since the write (an empty chunk
\* adds nothing); and a call whose read reports the end of the stream, before
\* the expected line count is reached, raises nothing and returns what it
\* has accumulated, the empty text if it received nothing.
C15_ReturnsWhatWasRead ==
    \A t \in Tasks :
        /\ result[t] = Concat(chunks[t])
        /\ ret[t].kind = "return" => ret[t].value = Concat(chunks[t])
        /\ ( /\ pc[t] = "done"
             /\ chunks[t] # <<>>
             /\ chunks[t][Len(chunks[t])] = <<>> )
           => ret[t] = Return(Concat(SubSeq(chunks[t], 1, Len(chunks[t]) - 1)))

C15_Witness ==
    \E t \in Tasks :
        /\ pc[t] = "done"
        /\ expected[t] = 2
        /\ chunks[t] = << <<"a">>, <<LF, "a">>, <<>> >>
        /\ ret[t] = Return(<<"a", LF, "a">>)

\* The outcome of the loop of _async_send_command when its reads return the
\* chunks cs in order on a stream that stays open: the text returned and
\* what is left unread, or Pending when the call is still suspended after
\* the last chunk.  text and count are the locals result and line_count.
RECURSIVE LoopOver(_, _, _, _)
LoopOver(cs, k, text, count) ==
    IF cs = <<>> THEN Pending
    ELSE LET text2 == text \o Head(cs)
             count2 == count + NewLines(Head(cs))
         IN  IF LoopExit(count2, k)
             THEN Return(<<text2, Concat(Tail(cs))>>)
             ELSE LoopOver(Tail(cs), k, text2, count2)

\* The chunking that hands over one character per read.
ByteByByte(text) == [i \in 1..Len(text) |-> <<text[i]>>]

\* The only call made so far is the one of task t, and the stream is open.
OnlyCall(t) ==
    /\ op[t] = "send"
    /\ \A u \in Tasks \ {t} : op[u] = "none"
    /\ writer = "open"
    /\ ~eof

\* C18: the outcome of _async_send_command does not depend on how the
\* transport cuts the device's text into chunks: whatever the chunking, a
\* call that returned has returned the text, and left unread the text, that
\* it returns and leaves when the same device text arrives one character
\* per read; and a call still suspended after the whole device text was
\* read is also suspended in that case.
C18_ChunkingIndependent ==
    \A t \in Tasks :
        OnlyCall(t) =>
            LET sent == result[t] \o inbuf \o devQueue
                reference == LoopOver(ByteByByte(sent), expected[t], <<>>, 0)
            IN  /\ (pc[t] = "done" /\ ret[t].kind = "return")
                      => reference = Return(<<ret[t].value, inbuf \o devQueue>>)
                /\ (pc[t] = "read" /\ inbuf = <<>> /\ devQueue = <<>>)
                      => reference = Pending

\* C19: when one caller issues its operations one after another and the
\* device answers each command by its echo and its payload, the text
\* _async_send_command returns for a command is the reply the device sent to
\* that command, and once the call has returned nothing of that reply is
\* left on the stream for the next call to read.
C19_RepliesNotMixed ==
    \A t \in Tasks :
        ( /\ pc[t] = "done"
          /\ ret[t] # Raise("AttributeError")
          /\ ~eof )
        => /\ result[t] \in SeqReplies(wire[Len(wire)])
           /\ answered = Len(wire) => (inbuf = <<>> /\ devQueue = <<>>)

\* C20: for a mutation command (route, power, volume), interpreting with
\* expect_success_code true the text _async_send_command returned reports
\* success only if that text is the whole of command, carriage return, "01",
\* command, carriage return; a reply cut short by the end of the stream
\* makes the interpretation fail or report succeeded = false.
C20_TruncatedNeverSucceeds ==
    \A t \in Tasks :
        ( /\ pc[t] = "done"
          /\ op[t] \in {"route", "power", "volume"}
          /\ ret[t] # Raise("AttributeError") )
        => LET r == interpret_result(taskCommand[t], result[t], TRUE)
           IN  (r.kind = "return" /\ r.value[1])
                  => result[t] = taskCommand[t] \o <<CR, "0", "1">>
                                    \o taskCommand[t] \o <<CR>>

C20_Witness ==
    \E t \in Tasks :
        /\ pc[t] = "done"
        /\ op[t] = "power"
        /\ eof
        /\ result[t] = <<"Z", "3", "o", "n", CR, "0", "1", "Z", "3", "o", "n">>
        /\ interpret_result(taskCommand[t], result[t], TRUE)
              = Return(<<FALSE, <<"0", "1", "Z", "3", "o", "n">> >>)

\* The command text of an operation called with the given arguments.
CommandText(o, a) ==
    IF o = "route"
    THEN OutputID_str(a[2]) \o <<"s", "o", "u", "r", "c", "e">> \o InputID_str(a[1])
    ELSE IF o = "power"
    THEN OutputID_str(a[1]) \o (IF a[2] THEN <<"o", "n">> ELSE <<"o", "f", "f">>)
    ELSE IF o = "volume"
    THEN OutputID_str(a[1]) \o <<"s", "e", "t", "v", "o", "l">> \o IntToStr(a[2])
    ELSE <<"S", "Y", "S", "T", "E", "M", "s", "t", "a", "t", "?">>

\* C16: an invocation of a command operation on a connected client writes
\* once, its command text followed by one carriage return, before any of its
\* reads; whatever is received afterwards, and however the invocation ends,
\* that line stays the only thing written.
C16_WritesOnce ==
    \A t \in Tasks :
        (op[t] # "none" /\ ret[t] # Raise("AttributeError")) =>
            /\ wire = << CommandText(op[t], args[t]) \o <<CR>> >>
            /\ \A i \in 1..Len(wire[1]) - 1 : wire[1][i] # CR

C16_Witness ==
    \E t \in Tasks :
        /\ op[t] = "power"
        /\ pc[t] = "done"
        /\ ret[t] = Raise("Exception")
        /\ result[t] = <<"?", CR, LF>>
        /\ wire = << <<"Z", "3", "o", "n", CR>> >>

-----------------------------------------------------------------------------
(* Properties of the Status Report Parser (SpecStatus)                     *)

StatusDone == status \notin {NoCall, Pending}

\* The number of CRLF-separated lines of a text.
LineCount(text) ==
    1 + Cardinality({ i \in 1..(Len(text) - 1) :
                        text[i] = CR /\ text[i + 1] = LF })

\* The report is the well-formed one: 21 lines or more, every record field
\* parses, and the record lines carry the ids 1, 2, ..., 10 in that order.
WellFormedInOrder ==
    /\ report.lines >= EndOutputLine
    /\ report.ids = InOrder
    /\ report.input = <<"M", "X", "2", " ", "&", " ", "2">>
    /\ report.volume = <<"5", "0">>

\* C9: a payload of fewer than 21 CRLF-separated lines makes the parser
\* fail; no SystemStatus is returned.
C9_ShortReportFails ==
    (StatusDone /\ LineCount(raw_result) < 21) => status.kind = "raise"

\* C10: a well-formed 21-line payload whose record lines carry the ids
\* 1..10 in order yields the device name that follows "AMPLIFIER NAME: " on
\* line 0 and exactly ten outputs keyed "Z1",...,"Z8","DXOa","DXOb" in that
\* insertion order, the output of each entry being decoded from field [1].
C10_WellFormedReport ==
    (StatusDone /\ WellFormedInOrder) =>
        /\ status.kind = "return"
        /\ status.value.name = report.name
        /\ [i \in 1..Len(status.value.outputs) |-> status.value.outputs[i].key]
             = << <<"Z", "1">>, <<"Z", "2">>, <<"Z", "3">>, <<"Z", "4">>,
                  <<"Z", "5">>, <<"Z", "6">>, <<"Z", "7">>, <<"Z", "8">>,
                  <<"D", "X", "O", "a">>, <<"D", "X", "O", "b">> >>
        /\ \A i \in 1..Len(status.value.outputs) :
              OutputID_str(status.value.outputs[i].value.output_id)
                 = status.value.outputs[i].key

\* C11: a returned SystemStatus parsed from a payload of at least 21 lines
\* whose ten record lines all parse holds one entry per record line: ten
\* entries with pairwise distinct keys, the OutputStatus of every record
\* line among them.
C11_OneEntryPerRecordLine ==
    (StatusDone /\ status.kind = "return" /\ LineCount(raw_result) >= 21) =>
        LET outputs == status.value.outputs
        IN  /\ Len(outputs) = 10
            /\ \A i, j \in 1..Len(outputs) :
                  i # j => outputs[i].key # outputs[j].key
            /\ \A n \in 1..10 :
                  \E i \in 1..Len(outputs) :
                     outputs[i].value.name = <<"O">> \o IntToStr(n)

-----------------------------------------------------------------------------
(* Properties of the Response Interpreter (SpecInterpret)                  *)

\* The position of the first carriage return of s, Len(s) + 1 if it has none.
FirstCR(s) ==
    IF \E i \in 1..Len(s) : s[i] = CR
    THEN CHOOSE i \in 1..Len(s) : s[i] = CR /\ \A j \in 1..(i - 1) : s[j] # CR
    ELSE Len(s) + 1

HasCR(s) == FirstCR(s) <= Len(s)

\* The part of s before its first carriage return, and the part after it.
EchoOf(s) == SubSeq(s, 1, FirstCR(s) - 1)
RemainderOf(s) == SubSeq(s, FirstCR(s) + 1, Len(s))

InterpretDone == iOut \notin {NoCall, Pending}

\* The exception the echo check raises (spec: ProtocolViolationError).
ProtocolViolationError == Raise("Exception")

\* C5: whatever expect_success_code is, a raw reply whose part before the
\* first carriage return differs from the command makes interpret fail with
\* the protocol-violation exception and return nothing, even when what
\* follows is a sentinel of the command.
C5_EchoMismatchRaises ==
    (InterpretDone /\ EchoOf(iResponse) # iCommand)
        => iOut = ProtocolViolationError

C5_Witness ==
    /\ InterpretDone
    /\ EchoOf(iResponse) # iCommand
    /\ HasCR(iResponse)
    /\ RemainderOf(iResponse) = <<"x", "x">> \o iCommand \o <<"x", "x", CR>>
    /\ iOut = ProtocolViolationError

\* C6: with a matching echo, the remainder "xx" + command + "xx\r" makes
\* interpret fail with BadCommandError; and with expect_success_code true,
\* BadCommandError is raised for that remainder only.
C6_BadCommandSentinel ==
    InterpretDone =>
        /\ ( /\ EchoOf(iResponse) = iCommand
             /\ HasCR(iResponse)
             /\ RemainderOf(iResponse) = <<"x", "x">> \o iCommand \o <<"x", "x", CR>> )
           => iOut = Raise("BadCommandError")
        /\ (iExpect /\ iOut = Raise("BadCommandError"))
           => /\ EchoOf(iResponse) = iCommand
              /\ HasCR(iResponse)
              /\ RemainderOf(iResponse) = <<"x", "x">> \o iCommand \o <<"x", "x", CR>>

C6_Witness ==
    /\ iExpect
    /\ iCommand = <<"Z", "x">>
    /\ iResponse = <<"Z", "x", CR, "x", "x", "Z", "x", "x", "x", CR>>
    /\ iOut = Raise("BadCommandError")

\* C7: with a matching echo and a remainder that is not the bad-command
\* sentinel, interpret(command, rawReply, true) returns (succeeded, remainder)
\* where remainder is everything after the first carriage return and
\* succeeded holds exactly when remainder is "01" + command + "\r".
C7_StatusModeResult ==
    ( /\ InterpretDone
      /\ iExpect
      /\ EchoOf(iResponse) = iCommand
      /\ HasCR(iResponse)
      /\ RemainderOf(iResponse) # <<"x", "x">> \o iCommand \o <<"x", "x", CR>> )
    => iOut = Return(<< RemainderOf(iResponse) = <<"0", "1">> \o iCommand \o <<CR>>,
                        RemainderOf(iResponse) >>)

C7_Witness ==
    /\ iExpect
    /\ iCommand = <<"Z", "x">>
    /\ iResponse = <<"Z", "x", CR, "0", "1", "Z", "x", CR>>
    /\ iOut = Return(<<TRUE, <<"0", "1", "Z", "x", CR>> >>)

\* C8: in payload-only mode (expect_success_code false) whatever interpret
\* returns is (true, remainder), remainder being everything after the first
\* carriage return, also when the remainder is not the success sentinel.
C8_PayloadModeNeverFails ==
    (InterpretDone /\ ~iExpect /\ iOut.kind = "return")
        => /\ HasCR(iResponse)
           /\ iOut.value = <<TRUE, RemainderOf(iResponse)>>

C8_Witness ==
    /\ InterpretDone
    /\ ~iExpect
    /\ iOut.kind = "return"
    /\ iOut.value[1]
    /\ iOut.value[2] # <<"0", "1">> \o iCommand \o <<CR>>
    /\ iOut.value[2] # <<>>

-----------------------------------------------------------------------------
(* Properties of the Identifier Codecs (SpecCodec)                         *)

CodecDone == idOut \notin {NoCall, Pending}

\* C12: for every integer n written as a bare status token, the output
\* decoded is analog output n when 1 <= n <= 8, digital output a when n = 9
\* and digital output b for every other n; its wire form is "Z" and n for
\* 1..8, "DXOa" for 9 and "DXOb" for 10.
C12_OutputFromStatusToken ==
    \A n \in StatusNumbers :
        (CodecDone /\ idClass = "OutputID" /\ idToken = IntToStr(n)) =>
            /\ idOut.kind = "return"
            /\ idOut.value =
                  IF n \in 1..8 THEN [analog |-> n, digital |-> <<>>]
                  ELSE IF n = 9 THEN [analog |-> -1, digital |-> <<"a">>]
                  ELSE [analog |-> -1, digital |-> <<"b">>]
            /\ n \in 1..8 => OutputID_str(idOut.value) = <<"Z", Digits[n + 1]>>
            /\ n = 9 => OutputID_str(idOut.value) = <<"D", "X", "O", "a">>
            /\ n = 10 => OutputID_str(idOut.value) = <<"D", "X", "O", "b">>

C12_Witness ==
    /\ CodecDone
    /\ idClass = "OutputID"
    /\ idToken = <<"-", "1">>
    /\ idOut = Return([analog |-> -1, digital |-> <<"b">>])

\* The positions at which ' & ' occurs in a text.
SepHits(text) == { j \in 1..Len(text) : MatchAt(text, AMPERSAND, j) }

\* What follows the first ' & ' of a text that holds one.
AfterFirstSep(text) ==
    LET j == CHOOSE h \in SepHits(text) : \A g \in SepHits(text) : h <= g
    IN  SubSeq(text, j + Len(AMPERSAND), Len(text))

\* The text holds a character no integer literal holds.
NotANumber(text) ==
    \E i \in 1..Len(text) :
        /\ text[i] \notin WhiteSpace \cup {"+", "-"}
        /\ \A d \in 1..10 : Digits[d] # text[i]

\* C13: InputID.create_from_status_id cuts the token at the first ' & ' and
\* reads everything after it as a decimal integer n, giving analog input n
\* for 1 <= n <= 8, digital input a for 9 and digital input b otherwise; a
\* token without ' & ', or whose part after the first ' & ' is not an
\* integer (as when a second ' & ' follows), fails.
C13_InputFromStatusToken ==
    (CodecDone /\ idClass = "InputID") =>
        IF SepHits(idToken) = {} THEN idOut.kind = "raise"
        ELSE /\ NotANumber(AfterFirstSep(idToken)) => idOut.kind = "raise"
             /\ \A n \in StatusNumbers :
                   AfterFirstSep(idToken) = IntToStr(n) =>
                      idOut = Return(
                         IF n \in 1..8 THEN [analog |-> n, digital |-> <<>>]
                         ELSE IF n = 9 THEN [analog |-> -1, digital |-> <<"a">>]
                         ELSE [analog |-> -1, digital |-> <<"b">>])

-----------------------------------------------------------------------------
(* Properties of disconnect (SpecDisconnect)                               *)

\* C14: disconnect completes without error in every state of the session,
\* whether the client was never connected, is connected and idle, has a
\* command waiting for its reply, or is disconnected already; it leaves the
\* session closed, and a call on a closed session leaves it closed.
C14_DisconnectNeverFails ==
    disc # NoCall => (disc.kind = "return" /\ writer = "closed")

\* C17: a call of _async_send_command that is suspended in its read loop
\* when, or after, disconnect closes the stream ends, by returning what it
\* has accumulated or by an exception: it does not stay suspended for ever.
C17_CloseEndsSuspendedCall ==
    \A t \in Tasks :
        (pc[t] = "read" /\ writer = "closed") ~> (pc[t] = "done")

C17_Witness ==
    \E t \in Tasks :
        /\ t \in cut
        /\ pc[t] = "done"
        /\ ret[t] = Return(<<"a">>)
        /\ expected[t] = 1

====
